---- MODULE Spec2Model ----
(***************************************************************************)
(* A model of the file ingestion pipeline of                               *)
(* FileProcessor.process_excel_file (src/file_processor.py) and of the     *)
(* helpers it calls: _find_header_row, _handle_duplicate_columns and       *)
(* _clean_dataframe; of the upload handler and its status stream           *)
(* (src/api.py); of the task process_file and the database update          *)
(* (src/tasks.py); and of the storage handler (src/utils/spaces.py).       *)
(*                                                                         *)
(* Python strings are sequences of one-character strings, so formatting    *)
(* (f-strings, str()) and trimming (str.strip) are computed, and two       *)
(* labels are equal exactly when their characters are.  Dictionaries are   *)
(* functions on a finite set of keys.  A table cell is a tagged value.     *)
(***************************************************************************)
EXTENDS Integers, Sequences, FiniteSets, TLC

VARIABLES
    pc,               \* position in the running call
    file,             \* what is stored at file_path (extension, size, workbook)
    sheet_name,       \* the sheet selector argument
    encoding,         \* local: the detected CSV encoding
    df,               \* local: the table
    data_for_header,  \* local: the header sample
    header_row,       \* local: the index _find_header_row returned
    headers,          \* local: the header row's cells
    duplicate_stats,  \* local: what _handle_duplicate_columns returned
    elapsed_time,     \* local: the clock reading of the checkpoint
    exc,              \* the exception in flight, if any
    result,           \* the value the call returned
    cleaned,          \* history: the table as _clean_dataframe returned it
    trail,            \* history: the stages the call went through, in order
    disk,             \* the raw folder: file name -> what is stored under it
    requests,         \* the upload requests being handled
    running,          \* the request whose task the worker runs (0: none)
    task,             \* process_file: its position and locals
    storage,          \* history: handlers constructed, uploads called
    database,         \* the rows and the session of the database update
    state,            \* the task state the result backend reports
    stream            \* event_stream: its position and the events sent

\* the variables of a call of process_excel_file
call == <<pc, file, sheet_name, encoding, df, data_for_header, header_row,
          headers, duplicate_stats, elapsed_time, exc, result, cleaned, trail>>

\* the variables of the upload handler, the task and the status stream
service == <<disk, requests, running, task, storage, database, state, stream>>

vars == <<call, service>>

None == [bound |-> FALSE]

\* no request, no task and no stream: a call of the pipeline on its own
IdleService ==
    /\ disk = <<>>
    /\ requests = <<>>
    /\ running = 0
    /\ task = None
    /\ storage = None
    /\ database = None
    /\ state = "PENDING"
    /\ stream = None

----------------------------------------------------------------------------
(* Bounds of the model *)

\* the longest header row handed to _handle_duplicate_columns on its own
MaxHeaderLen == 5

\* the number of columns of a sample _find_header_row is called on
SampleWidth == 2

----------------------------------------------------------------------------
(* Python strings *)

\* the characters str.strip() removes
Whitespace == {" ", "\t", "\n"}

RECURSIVE LStrip(_)
LStrip(s) ==
    IF s /= <<>> /\ Head(s) \in Whitespace THEN LStrip(Tail(s)) ELSE s

RECURSIVE RStrip(_)
RStrip(s) ==
    IF s /= <<>> /\ s[Len(s)] \in Whitespace
    THEN RStrip(SubSeq(s, 1, Len(s) - 1))
    ELSE s

\* str.strip()
Strip(s) == RStrip(LStrip(s))

DigitChar(d) == <<"0", "1", "2", "3", "4", "5", "6", "7", "8", "9">>[d + 1]

\* str(n) of a non-negative int
RECURSIVE Digits(_)
Digits(n) ==
    IF n < 10 THEN <<DigitChar(n)>>
    ELSE Digits(n \div 10) \o <<DigitChar(n % 10)>>

----------------------------------------------------------------------------
(* Table cells: Null (NaN/None), Text (str), Number (int/float), Boolean   *)
(* (bool) and Date (a Timestamp: not null, neither str nor int/float).     *)

Null    == [kind |-> "Null", s |-> <<>>, n |-> 0]
Text(s) == [kind |-> "Text", s |-> s, n |-> 0]
Num(n)  == [kind |-> "Number", s |-> <<>>, n |-> n]
Bool(b) == [kind |-> "Boolean", s |-> <<>>, n |-> IF b THEN 1 ELSE 0]
Date    == [kind |-> "Date", s |-> <<>>, n |-> 0]

\* pd.notna(v)
NotNa(v) == v.kind /= "Null"

\* isinstance(v, str)
IsStr(v) == v.kind = "Text"

\* isinstance(v, (int, float)): bool is a subclass of int
IsIntOrFloat(v) == v.kind \in {"Number", "Boolean"}

\* str(v)
PyStr(v) ==
    CASE v.kind = "Text" -> v.s
      [] v.kind = "Null" -> <<"n", "a", "n">>
      [] v.kind = "Number" -> Digits(v.n)
      [] v.kind = "Boolean" ->
            IF v.n = 1 THEN <<"T", "r", "u", "e">>
            ELSE <<"F", "a", "l", "s", "e">>
      [] v.kind = "Date" ->
            <<"2", "0", "2", "4", "-", "0", "1", "-", "0", "1",
              " ", "0", "0", ":", "0", "0", ":", "0", "0">>

----------------------------------------------------------------------------
(* _handle_duplicate_columns *)

\* header_list = [str(h).strip() for h in headers]
HeaderList(hs) == [i \in 1..Len(hs) |-> Strip(PyStr(hs[i]))]

\* a slip: the suffix counts the earlier occurrences only
NewNameOffByOne(header, count) == header \o <<"_">> \o Digits(count - 1)

\* new_name = f"{header}_{count}"
NewName(header, count) == header \o <<"_">> \o Digits(count)

\* a slip: the key carries the 0-based position
RenameKeyZeroBased(header, idx) ==
    header \o <<" ", "(", "C", "o", "l", " ">> \o Digits(idx) \o <<")">>

\* the rename map's key f"{header} (Col {idx + 1})", idx the 0-based position
RenameKey(header, idx) ==
    header \o <<" ", "(", "C", "o", "l", " ">> \o Digits(idx + 1) \o <<")">>

\* d[k] = v on a dict
DictPut(d, k, v) ==
    [x \in DOMAIN d \cup {k} |-> IF x = k THEN v ELSE d[x]]

\* counts[header], a defaultdict(int)
CountOf(counts, header) ==
    IF header \in DOMAIN counts THEN counts[header] ELSE 0

\* the state before the loop's first iteration
DedupStart ==
    [seen |-> {}, counts |-> <<>>, final_headers |-> <<>>,
     renamed_columns |-> <<>>]

\* one iteration of "for idx, header in enumerate(header_list)", i = idx + 1
DedupStep(st, header, i) ==
    LET count == CountOf(st.counts, header) + 1
        counts1 == DictPut(st.counts, header, count)
    IN  IF header \in st.seen
        THEN [seen |-> st.seen,
              counts |-> counts1,
              final_headers |-> Append(st.final_headers, NewName(header, count)),
              renamed_columns |->
                  DictPut(st.renamed_columns, RenameKey(header, i - 1),
                          NewName(header, count))]
        ELSE [seen |-> st.seen \cup {header},
              counts |-> counts1,
              final_headers |-> Append(st.final_headers, header),
              renamed_columns |-> st.renamed_columns]

RECURSIVE DedupLoop(_, _, _)
DedupLoop(hl, i, st) ==
    IF i > Len(hl) THEN st
    ELSE DedupLoop(hl, i + 1, DedupStep(st, hl[i], i))

\* a slip: the filter keeps every label
TrueDuplicatesUnfiltered(counts) ==
    [k \in {x \in DOMAIN counts : counts[x] >= 1} |-> counts[k]]

\* duplicate_counts = {k: v for k, v in counts.items() if v > 1}
TrueDuplicates(counts) ==
    [k \in {x \in DOMAIN counts : counts[x] > 1} |-> counts[k]]

HandleDuplicateColumns(hs) ==
    LET st == DedupLoop(HeaderList(hs), 1, DedupStart)
    IN  [final_headers |-> st.final_headers,
         duplicate_counts |-> TrueDuplicates(st.counts),
         renamed_columns |-> st.renamed_columns]

----------------------------------------------------------------------------
(* Tables.  A sheet is what the reader found in the file: n rows of `width` *)
(* cells; row i is marks[i] where i is marked and `fill` elsewhere, so a    *)
(* sheet of a thousand rows is a small value.  A DataFrame is a window      *)
(* lo..hi-1 on the rows of a sheet, with column labels and, per column,     *)
(* the text values that cleaning replaced by the null marker.               *)

RawRow(sheet, i) ==
    IF i \in DOMAIN sheet.marks THEN sheet.marks[i] ELSE sheet.fill

\* the column names the reader gives with header_row=None
DefaultColumns(width) ==
    [j \in 1..width |->
        <<"_", "_", "U", "N", "N", "A", "M", "E", "D", "_", "_">>
            \o Digits(j - 1)]

\* sheet.to_pandas()
ToPandas(sheet) ==
    [sheet |-> sheet, lo |-> 0, hi |-> sheet.n,
     columns |-> DefaultColumns(sheet.width),
     na |-> [j \in 1..sheet.width |-> {}]]

\* len(df)
DfLen(d) == d.hi - d.lo

Min(a, b) == IF a < b THEN a ELSE b

\* df.head(k)
DfHead(d, k) == [d EXCEPT !.hi = Min(d.hi, d.lo + k)]

\* a slip: the slice starts one row early
DfFromOneEarly(d, k) == [d EXCEPT !.lo = Min(d.hi, d.lo + k - 1)]

\* df.iloc[k:].reset_index(drop=True)
DfFrom(d, k) == [d EXCEPT !.lo = Min(d.hi, d.lo + k)]

\* a cell of column j as the table shows it: null where cleaning replaced it
CellAfterNa(d, v, j) ==
    IF v.kind = "Text" /\ v.s \in d.na[j] THEN Null ELSE v

\* the cell of row i (0-based, after reset_index), column j (1-based)
DfCell(d, i, j) == CellAfterNa(d, RawRow(d.sheet, d.lo + i)[j], j)

\* df.iloc[i], defined for 0 <= i < len(df)
DfRow(d, i) == [j \in 1..d.sheet.width |-> DfCell(d, i, j)]

----------------------------------------------------------------------------
(* _find_header_row *)

\* the rows _find_header_row looks at
HeaderScanLimit == 20

\* row.notna().sum()
NonNullCount(row) == Cardinality({j \in 1..Len(row) : NotNa(row[j])})

\* sum(isinstance(v, str) for v in row if pd.notna(v))
StringCount(row) ==
    Cardinality({j \in 1..Len(row) : NotNa(row[j]) /\ IsStr(row[j])})

\* sum(isinstance(v, (int, float)) for v in row if pd.notna(v))
NumericCount(row) ==
    Cardinality({j \in 1..Len(row) : NotNa(row[j]) /\ IsIntOrFloat(row[j])})

\* a slip: one row more than head(20) is scanned
DfSampleOneMore(d) ==
    IF DfLen(d) > HeaderScanLimit + 1 THEN DfHead(d, HeaderScanLimit + 1)
    ELSE d

\* df_sample = df.head(20) if len(df) > 20 else df
DfSample(d) ==
    IF DfLen(d) > HeaderScanLimit THEN DfHead(d, HeaderScanLimit) ELSE d

\* a slip: a later row of the same count replaces the earlier one
BeatsBestOrTies(non_null_count, max_non_null_count) ==
    non_null_count >= max_non_null_count

\* "if non_null_count > max_non_null_count"
BeatsBest(non_null_count, max_non_null_count) ==
    non_null_count > max_non_null_count

\* one iteration of "for idx, row in df_sample.iterrows()"
FindStep(st, idx, row) ==
    IF NumericCount(row) > StringCount(row) THEN st
    ELSE IF BeatsBest(NonNullCount(row), st.max_non_null_count)
         THEN [max_non_null_count |-> NonNullCount(row),
               potential_header_row |-> idx]
         ELSE st

RECURSIVE FindLoop(_, _, _)
FindLoop(d, idx, st) ==
    IF idx >= DfLen(d) THEN st
    ELSE CHOOSE found \in
             {FindLoop(d, idx + 1, nxt) :
                 nxt \in {FindStep(st, idx, DfRow(d, idx))}} : TRUE

FindHeaderRow(d) ==
    FindLoop(DfSample(d), 0,
             [max_non_null_count |-> 0, potential_header_row |-> 0])
        .potential_header_row

----------------------------------------------------------------------------
(* _clean_dataframe *)

\* above this many rows no cell is looked at
SkipRows == 50000

\* above this many rows only empty strings are replaced
LimitedRows == 10000

\* a slip: one column more
LimitedColsOneMore == 5 + 1

\* the text columns the limited pass looks at
LimitedCols == 5

\* a slip: one column more
ThoroughColsOneMore == 10 + 1

\* the text columns the thorough pass looks at
ThoroughCols == 10

\* a column is cleaned by the thorough pass when it has fewer distinct values
UniqueLimit == 20

\* the distinct rows among rows lo..hi-1 of the sheet
RowsIn(sheet, lo, hi) ==
    LET marked == DOMAIN sheet.marks \cap lo..(hi - 1)
    IN  {sheet.marks[i] : i \in marked}
            \cup (IF Cardinality(marked) < hi - lo THEN {sheet.fill} ELSE {})

\* the kinds of the non-null cells of column j of the sheet
ColumnKinds(sheet, j) ==
    {r[j].kind : r \in RowsIn(sheet, 0, sheet.n)} \ {"Null"}

ColumnHasNull(sheet, j) ==
    \E r \in RowsIn(sheet, 0, sheet.n) : r[j].kind = "Null"

\* the column's dtype is object: it holds text, or values of several kinds,
\* or booleans beside nulls
IsObjectColumn(d, j) ==
    LET kinds == ColumnKinds(d.sheet, j)
    IN  \/ "Text" \in kinds
        \/ Cardinality(kinds) > 1
        \/ (kinds = {"Boolean"} /\ ColumnHasNull(d.sheet, j))

\* df.select_dtypes(include=['object']).columns, as column positions in order
StrCols(d) ==
    LET obj == {j \in 1..d.sheet.width : IsObjectColumn(d, j)}
        Rank(j) == Cardinality({k \in obj : k <= j})
    IN  [r \in 1..Cardinality(obj) |-> CHOOSE j \in obj : Rank(j) = r]

\* df[col].nunique()
NUnique(d, j) ==
    Cardinality({CellAfterNa(d, r[j], j) : r \in RowsIn(d.sheet, d.lo, d.hi)}
                    \ {Null})

\* the first k elements of a sequence
Take(seq, k) == SubSeq(seq, 1, Min(k, Len(seq)))

Range(seq) == {seq[i] : i \in 1..Len(seq)}

EmptyString == {<<>>}

CommonNaValues == {<<>>, <<"n", "a", "n">>, <<"n", "u", "l", "l">>}

\* "if row_count > 10000" pass: empty strings of the first text columns
CleanLimited(d) ==
    LET sample_cols == Range(Take(StrCols(d), LimitedCols))
    IN  [d EXCEPT !.na = [j \in 1..d.sheet.width |->
                             IF j \in sample_cols
                             THEN d.na[j] \cup EmptyString ELSE d.na[j]]]

\* a slip: the pass drops a row, as a dropna would
CleanThoroughDropsRow(d) ==
    [d EXCEPT !.hi = IF d.hi > d.lo THEN d.hi - 1 ELSE d.hi]

\* the pass for the other tables
CleanThorough(d) ==
    LET cols == Range(Take(StrCols(d), ThoroughCols))
    IN  [d EXCEPT !.na = [j \in 1..d.sheet.width |->
                             IF j \in cols /\ NUnique(d, j) < UniqueLimit
                             THEN d.na[j] \cup CommonNaValues ELSE d.na[j]]]

\* a slip: the threshold itself is taken as above it
AtOrAboveLimit(row_count, limit) == row_count >= limit

\* "if row_count > 50000", "if row_count > 10000"
AboveLimit(row_count, limit) == row_count > limit

\* df.columns = [str(col).strip() for col in df.columns]
StripColumns(d) ==
    [d EXCEPT !.columns = [j \in 1..Len(d.columns) |-> Strip(d.columns[j])]]

\* the columns the loops of the two passes go through
InspectedCols(d) ==
    IF AboveLimit(DfLen(d), SkipRows) THEN {}
    ELSE IF AboveLimit(DfLen(d), LimitedRows)
    THEN Range(Take(StrCols(d), LimitedCols))
    ELSE Range(Take(StrCols(d), ThoroughCols))

\* df[col] is a DataFrame when several columns bear the label col, and
\* "if mask.any()" (line 307) and "pd.notna(unique_count) and ..." (line
\* 324) then raise ValueError: the truth value of a Series is ambiguous
CleanRaises(d) ==
    \E j \in InspectedCols(d) :
        \E k \in 1..Len(d.columns) :
            k /= j /\ Strip(d.columns[k]) = Strip(d.columns[j])

AmbiguousTruthValue ==
    [type |-> "ValueError", text |-> "The truth value of a Series is ambiguous",
     out_of_range |-> FALSE, sheet_index |-> 0 - 1, sheet_count |-> 0 - 1,
     sheet_names |-> <<>>]

CleanDataframe(d0) ==
    LET d == StripColumns(d0)
        row_count == DfLen(d)
    IN  IF AboveLimit(row_count, SkipRows) THEN d
        ELSE IF AboveLimit(row_count, LimitedRows) THEN CleanLimited(d)
        ELSE CleanThorough(d)

----------------------------------------------------------------------------
(* Values of the locals before they are assigned *)

NoRow == 0 - 1

NoTime == 0 - 1

NoEncoding == "unbound"

----------------------------------------------------------------------------
(* File names *)

Upper == <<"A", "B", "C", "D", "E", "F", "G", "H", "I", "J", "K", "L", "M",
           "N", "O", "P", "Q", "R", "S", "T", "U", "V", "W", "X", "Y", "Z">>

Lower == <<"a", "b", "c", "d", "e", "f", "g", "h", "i", "j", "k", "l", "m",
           "n", "o", "p", "q", "r", "s", "t", "u", "v", "w", "x", "y", "z">>

\* str.lower() of one character
LowerChar(c) ==
    IF \E k \in 1..26 : Upper[k] = c
    THEN Lower[CHOOSE k \in 1..26 : Upper[k] = c]
    ELSE c

\* Path(file_path).suffix.lower(): from the last dot of the name, when that
\* dot is not the name's first character
SuffixLower(name) ==
    LET dots == {k \in 2..Len(name) : name[k] = "."}
    IN  IF dots = {} THEN <<>>
        ELSE LET k == CHOOSE d \in dots : \A e \in dots : e <= d
             IN  [i \in 1..(Len(name) - k + 1) |-> LowerChar(name[k + i - 1])]

DotCsv == <<".", "c", "s", "v">>

----------------------------------------------------------------------------
(* detect_file_encoding *)

\* chardet's confidence is kept in percent
ConfidencePercent == 70

FallbackEncodings == <<"utf-8", "cp1252", "iso-8859-1", "latin1">>

\* the first encoding of the list under which the bytes decode, or "none"
RECURSIVE FirstDecoding(_, _)
FirstDecoding(decodes, encs) ==
    IF encs = <<>> THEN "none"
    ELSE IF Head(encs) \in decodes THEN Head(encs)
    ELSE FirstDecoding(decodes, Tail(encs))

\* a slip: a confidence of exactly 0.7 counts as low
LowConfidenceInclusive(confidence) == confidence <= ConfidencePercent

\* "if confidence < 0.7"
LowConfidence(confidence) == confidence < ConfidencePercent

DetectFileEncoding(csv) ==
    IF LowConfidence(csv.confidence)
          /\ FirstDecoding(csv.decodes, FallbackEncodings) /= "none"
    THEN FirstDecoding(csv.decodes, FallbackEncodings)
    ELSE IF csv.detected = "none" THEN "utf-8" ELSE csv.detected

----------------------------------------------------------------------------
(* Exceptions *)

NoCount == 0 - 1

Error(type, text) ==
    [type |-> type, text |-> text, out_of_range |-> FALSE,
     sheet_index |-> NoCount, sheet_count |-> NoCount, sheet_names |-> <<>>]

\* ValueError(f"Sheet index {sheet_name} out of range. File has
\* {sheet_count} sheets (0-{sheet_count-1}).")
SheetIndexError(idx, count) ==
    [type |-> "ValueError", text |-> "Sheet index out of range. File has sheets",
     out_of_range |-> TRUE, sheet_index |-> idx, sheet_count |-> count,
     sheet_names |-> <<>>]

\* the name is a local of process_excel_file that nothing has bound yet
UnboundLocalError(name) ==
    Error("UnboundLocalError",
          "cannot access local variable where it is not associated with a value")

FileNotFoundError == Error("FileNotFoundError", "No such file or directory")

\* pd.read_excel: ValueError(f"Worksheet index {index} is invalid,
\* {n_sheets} worksheets found")
WorksheetIndexError(idx, count) ==
    [type |-> "ValueError",
     text |-> "Worksheet index is invalid, worksheets found",
     out_of_range |-> FALSE, sheet_index |-> idx, sheet_count |-> count,
     sheet_names |-> <<>>]

\* a handler that lets some exceptions through
CatchesValueErrorOnly(e) == e.type = "ValueError"

\* "except Exception as e": every exception the pipeline raises is one
Catches(e) == TRUE

\* where a raise inside the try block goes
RaiseTo(e) == IF Catches(e) THEN "except" ELSE "escaped"

----------------------------------------------------------------------------
(* Reading a workbook *)

BytesPerMb == 1024 * 1024

\* spreadsheets above this size take the extra-large branch
LargeFileMb == 100

\* the rows the extra-large branch keeps
FastRowCap == 50000

\* the rows of the header sample
SampleSize == 50

AllSheetNames == <<"Sheet1", "Sheet2", "Sheet3">>

SheetNames(count) == SubSeq(AllSheetNames, 1, count)

IntSel(i) == [kind |-> "int", i |-> i, name |-> ""]

StrSel(name) == [kind |-> "str", i |-> 0, name |-> name]

NoSel == [kind |-> "None", i |-> 0, name |-> ""]

\* isinstance(sheet_name, int)
IsInt(sel) == sel.kind = "int"

\* the selector names a sheet of the workbook
SheetFound(sel, count) ==
    CASE sel.kind = "None" -> count > 0
      [] sel.kind = "int" -> sel.i >= 0 /\ sel.i < count
      [] sel.kind = "str" -> sel.name \in Range(SheetNames(count))

\* the while loop of pandas' dedup_names: <<counts, name>>
RECURSIVE MangleName(_, _)
MangleName(counts, col) ==
    IF CountOf(counts, col) > 0
    THEN MangleName(DictPut(counts, col, CountOf(counts, col) + 1),
                    col \o <<".">> \o Digits(CountOf(counts, col)))
    ELSE <<counts, col>>

RECURSIVE MangleLoop(_, _, _, _)
MangleLoop(names, i, counts, out) ==
    IF i > Len(names) THEN out
    ELSE LET m == MangleName(counts, names[i])
         IN  MangleLoop(names, i + 1, DictPut(m[1], m[2], 1),
                        Append(out, m[2]))

\* the label pandas gives a header cell
PandasLabel(v, j) ==
    IF v.kind = "Null"
    THEN <<"U", "n", "n", "a", "m", "e", "d", ":", " ">> \o Digits(j - 1)
    ELSE PyStr(v)

\* pd.read_excel(file_path, engine='openpyxl', sheet_name=...): the first
\* row gives the column labels, the other rows are the table
ReadExcelPandas(sheet) ==
    [sheet |-> sheet, lo |-> Min(1, sheet.n), hi |-> sheet.n,
     columns |->
        IF sheet.n = 0 THEN <<>>
        ELSE MangleLoop([j \in 1..sheet.width |->
                            PandasLabel(RawRow(sheet, 0)[j], j)],
                        1, <<>>, <<>>),
     na |-> [j \in 1..sheet.width |-> {}]]

----------------------------------------------------------------------------
(* The helpers called on their own, on every input of a bounded set *)

A_   == Text(<<"A">>)
B_   == Text(<<"B">>)
A_2  == Text(<<"A", "_", "2">>)
A_sp == Text(<<" ", "A", "\t">>)
C_   == Text(<<"C">>)

\* the cells of the header rows _handle_duplicate_columns is called on
HeaderCells == {A_, B_, C_, A_2, A_sp, Null}

HeaderRows ==
    UNION {[1..k -> HeaderCells] : k \in 0..MaxHeaderLen}

\* the cells of the samples _find_header_row is called on
SampleCells == {Null, A_, Num(1)}

SampleRows == [1..SampleWidth -> SampleCells]

SampleFillRows ==
    {[j \in 1..SampleWidth |-> Null],
     [j \in 1..SampleWidth |-> Bool(TRUE)],
     [j \in 1..SampleWidth |-> IF j = 1 THEN A_ ELSE Null],
     [j \in 1..SampleWidth |-> IF j = 1 THEN Date ELSE Null]}

\* <<rows of the sample, the two marked rows>>
SampleShapes ==
    {<<0, 0, 1>>, <<1, 0, 1>>, <<2, 0, 1>>, <<3, 0, 2>>, <<3, 1, 2>>,
     <<20, 18, 19>>, <<21, 19, 20>>, <<22, 20, 21>>, <<25, 1, 20>>}

Samples ==
    {ToPandas([n |-> sh[1], width |-> SampleWidth, fill |-> f,
               marks |-> [i \in {sh[2], sh[3]} |->
                             IF i = sh[2] THEN r1 ELSE r2]]) :
        sh \in SampleShapes, f \in SampleFillRows,
        r1 \in SampleRows, r2 \in SampleRows}

IdleLocals ==
    /\ file = None
    /\ sheet_name = NoSel
    /\ encoding = NoEncoding
    /\ df = None
    /\ elapsed_time = NoTime
    /\ exc = None
    /\ result = None
    /\ cleaned = None
    /\ trail = <<>>

InitDedup ==
    /\ pc = "call_handle_duplicate_columns"
    /\ headers \in HeaderRows
    /\ duplicate_stats = None
    /\ data_for_header = None
    /\ header_row = NoRow
    /\ IdleLocals
    /\ IdleService

CallHandleDuplicateColumns ==
    /\ pc = "call_handle_duplicate_columns"
    /\ duplicate_stats' = HandleDuplicateColumns(headers)
    /\ pc' = "returned"
    /\ UNCHANGED <<file, sheet_name, encoding, df, data_for_header,
                   header_row, headers, elapsed_time, exc, result, cleaned,
                   trail>>
    /\ UNCHANGED service

SpecDedup == InitDedup /\ [][CallHandleDuplicateColumns]_vars

InitHeader ==
    /\ pc = "call_find_header_row"
    /\ data_for_header \in Samples
    /\ header_row = NoRow
    /\ headers = <<>>
    /\ duplicate_stats = None
    /\ IdleLocals
    /\ IdleService

CallFindHeaderRow ==
    /\ pc = "call_find_header_row"
    /\ header_row' = FindHeaderRow(data_for_header)
    /\ pc' = "returned"
    /\ UNCHANGED <<file, sheet_name, encoding, df, data_for_header,
                   headers, duplicate_stats, elapsed_time, exc, result,
                   cleaned, trail>>
    /\ UNCHANGED service

SpecHeader == InitHeader /\ [][CallFindHeaderRow]_vars

----------------------------------------------------------------------------
(* process_excel_file *)

\* timeout_seconds
TimeoutSeconds == 20

\* the rows returned once the budget is exceeded
TimeoutRowCap == 1000

\* what time() - start_time_total may read
ClockReadings == {TimeoutSeconds - 1, TimeoutSeconds, TimeoutSeconds + 1}

\* file_extension = Path(file_path).suffix.lower()
FileExtension == SuffixLower(file.name)

\* str.lstrip('.')
RECURSIVE LStripDots(_)
LStripDots(s) ==
    IF s /= <<>> /\ Head(s) = "." THEN LStripDots(Tail(s)) ELSE s

\* the encoding pd.read_csv ends up reading with, or "none"
CsvEncodingUsed(csv, enc) ==
    IF enc \in csv.decodes THEN enc
    ELSE FirstDecoding(csv.decodes, FallbackEncodings)

\* "import pandas as pd" inside process_excel_file (line 105) makes pd a
\* local of the function; on the CSV branch that line has not run
PdBoundOnCsvBranch == FALSE

\* lines 81-95: the CSV branch
ReadCsv ==
    /\ pc = "start"
    /\ FileExtension = DotCsv
    /\ IF ~file.exists
       THEN /\ exc' = FileNotFoundError
            /\ pc' = RaiseTo(FileNotFoundError)
            /\ UNCHANGED <<encoding, df, trail>>
       ELSE /\ encoding' = DetectFileEncoding(file.csv)
            /\ IF ~PdBoundOnCsvBranch
               THEN /\ exc' = UnboundLocalError("pd")
                    /\ pc' = RaiseTo(UnboundLocalError("pd"))
                    /\ UNCHANGED <<df, trail>>
               ELSE IF CsvEncodingUsed(file.csv, encoding') = "none"
               THEN /\ exc' = Error("ValueError",
                            "Could not read CSV with any common encoding")
                    /\ pc' = RaiseTo(exc')
                    /\ UNCHANGED <<df, trail>>
               ELSE /\ df' = ReadExcelPandas(file.sheet)
                    /\ pc' = "find_header"
                    /\ trail' = Append(trail, "Reading")
                    /\ UNCHANGED exc
    /\ UNCHANGED <<file, sheet_name, data_for_header, header_row, headers,
                   duplicate_stats, elapsed_time, result, cleaned>>
    /\ UNCHANGED service

\* line 98: os.path.getsize on a path that is not there
GetSizeFails ==
    /\ pc = "start"
    /\ FileExtension /= DotCsv
    /\ ~file.exists
    /\ exc' = FileNotFoundError
    /\ pc' = RaiseTo(FileNotFoundError)
    /\ UNCHANGED <<file, sheet_name, encoding, df, data_for_header,
                   header_row, headers, duplicate_stats, elapsed_time, result,
                   cleaned, trail>>
    /\ UNCHANGED service

\* a slip: a file of exactly 100 MB counts as extra large
IsExtraLargeInclusive(f) == f.size >= LargeFileMb * BytesPerMb

\* file_size_mb > 100, with file_size_mb = size / (1024 * 1024)
IsExtraLarge(f) == f.size > LargeFileMb * BytesPerMb

\* "if len(df) > 50000: df = df.iloc[:50000]"
LimitFastRows(d) == IF DfLen(d) > FastRowCap THEN DfHead(d, FastRowCap) ELSE d

\* lines 102-113: the extra-large branch (file_size_mb is kept in bytes)
ReadExcelLarge ==
    /\ pc = "start"
    /\ FileExtension /= DotCsv
    /\ file.exists
    /\ IsExtraLarge(file)
    /\ IF ~file.valid
       THEN /\ exc' = Error("BadZipFile", "File is not a zip file")
            /\ pc' = RaiseTo(exc')
            /\ UNCHANGED <<df, result, trail>>
       ELSE IF ~SheetFound(sheet_name, file.sheet_count)
       THEN /\ exc' = IF IsInt(sheet_name)
                      THEN WorksheetIndexError(sheet_name.i, file.sheet_count)
                      ELSE Error("ValueError", "Worksheet named not found")
            /\ pc' = RaiseTo(exc')
            /\ UNCHANGED <<df, result, trail>>
       ELSE /\ df' = LimitFastRows(ReadExcelPandas(file.sheet))
            /\ result' = [table |-> df',
                          stats |-> [fast_processing |-> TRUE,
                                     file_size_mb |-> file.size]]
            /\ pc' = "done"
            /\ trail' = trail \o <<"Reading", "Done">>
            /\ UNCHANGED exc
    /\ UNCHANGED <<file, sheet_name, encoding, data_for_header, header_row,
                   headers, duplicate_stats, elapsed_time, cleaned>>
    /\ UNCHANGED service

\* lines 115-141: the reader, the sheet, the table and the header sample
ReadExcel ==
    /\ pc = "start"
    /\ FileExtension /= DotCsv
    /\ file.exists
    /\ ~IsExtraLarge(file)
    /\ IF ~file.valid
       THEN /\ exc' = Error("CalamineError", "Cannot detect file format")
            /\ pc' = RaiseTo(exc')
            /\ UNCHANGED <<df, data_for_header, trail>>
       ELSE IF ~SheetFound(sheet_name, file.sheet_count)
       THEN /\ exc' = IF IsInt(sheet_name) /\ sheet_name.i >= file.sheet_count
                      THEN SheetIndexError(sheet_name.i, file.sheet_count)
                      ELSE Error("SheetNotFoundError", "sheet not found")
            /\ pc' = RaiseTo(exc')
            /\ UNCHANGED <<df, data_for_header, trail>>
       ELSE /\ df' = ToPandas(file.sheet)
            /\ data_for_header' = DfHead(df', SampleSize)
            /\ pc' = "find_header"
            /\ trail' = Append(trail, "Reading")
            /\ UNCHANGED exc
    /\ UNCHANGED <<file, sheet_name, encoding, header_row, headers,
                   duplicate_stats, elapsed_time, result, cleaned>>
    /\ UNCHANGED service

\* "if header_row is None"
IsNone(h) == h = NoRow

\* lines 144-146
FindHeader ==
    /\ pc = "find_header"
    /\ IF data_for_header = None
       THEN /\ exc' = UnboundLocalError("data_for_header")
            /\ pc' = RaiseTo(exc')
            /\ UNCHANGED header_row
       ELSE IF IsNone(FindHeaderRow(data_for_header))
       THEN /\ exc' = Error("ValueError", "Could not detect header row")
            /\ pc' = RaiseTo(exc')
            /\ UNCHANGED header_row
       ELSE /\ header_row' = FindHeaderRow(data_for_header)
            /\ pc' = "set_headers"
            /\ UNCHANGED exc
    /\ UNCHANGED <<file, sheet_name, encoding, df, data_for_header, headers,
                   duplicate_stats, elapsed_time, result, cleaned, trail>>
    /\ UNCHANGED service

\* lines 150-151: df.iloc[header_row] and df.iloc[header_row + 1:]
SetHeaders ==
    /\ pc = "set_headers"
    /\ IF header_row >= DfLen(df)
       THEN /\ exc' = Error("IndexError",
                            "single positional indexer is out-of-bounds")
            /\ pc' = RaiseTo(exc')
            /\ UNCHANGED <<df, headers, trail>>
       ELSE /\ headers' = DfRow(df, header_row)
            /\ df' = DfFrom(df, header_row + 1)
            /\ pc' = "dedup"
            /\ trail' = Append(trail, "HeaderResolved")
            /\ UNCHANGED exc
    /\ UNCHANGED <<file, sheet_name, encoding, data_for_header, header_row,
                   duplicate_stats, elapsed_time, result, cleaned>>
    /\ UNCHANGED service

\* lines 154-155
Dedup ==
    /\ pc = "dedup"
    /\ duplicate_stats' = HandleDuplicateColumns(headers)
    /\ IF Len(duplicate_stats'.final_headers) /= df.sheet.width
       THEN /\ exc' = Error("ValueError", "Length mismatch")
            /\ pc' = RaiseTo(exc')
            /\ UNCHANGED <<df, trail>>
       ELSE /\ df' = [df EXCEPT !.columns = duplicate_stats'.final_headers]
            /\ pc' = "clean"
            /\ trail' = Append(trail, "Deduplicated")
            /\ UNCHANGED exc
    /\ UNCHANGED <<file, sheet_name, encoding, data_for_header, header_row,
                   headers, elapsed_time, result, cleaned>>
    /\ UNCHANGED service

\* line 158
Clean ==
    /\ pc = "clean"
    /\ IF CleanRaises(df)
       THEN /\ exc' = AmbiguousTruthValue
            /\ pc' = RaiseTo(exc')
            /\ UNCHANGED <<df, cleaned, trail>>
       ELSE /\ df' = CleanDataframe(df)
            /\ cleaned' = df'
            /\ pc' = "checkpoint"
            /\ trail' = Append(trail, "Cleaning")
            /\ UNCHANGED exc
    /\ UNCHANGED <<file, sheet_name, encoding, data_for_header, header_row,
                   headers, duplicate_stats, elapsed_time, result>>
    /\ UNCHANGED service

\* a slip: the budget itself counts as exceeded
OverBudgetInclusive(t) == t >= TimeoutSeconds

\* "if elapsed_time > timeout_seconds"
OverBudget(t) == t > TimeoutSeconds

\* a slip: one row too many is kept
LimitRowsOffByOne(d) ==
    IF DfLen(d) > TimeoutRowCap THEN DfHead(d, TimeoutRowCap + 1) ELSE d

\* "if len(df) > 1000: df = df.head(1000)"
LimitRows(d) ==
    IF DfLen(d) > TimeoutRowCap THEN DfHead(d, TimeoutRowCap) ELSE d

\* a slip: a hard timeout, the call fails once the budget is exceeded
CheckpointHardTimeout ==
    /\ pc = "checkpoint"
    /\ \E t \in ClockReadings :
          /\ elapsed_time' = t
          /\ IF OverBudget(t)
             THEN /\ exc' = Error("TimeoutError", "processing timed out")
                  /\ pc' = RaiseTo(exc')
                  /\ UNCHANGED <<df, trail>>
             ELSE /\ pc' = "stats"
                  /\ trail' = Append(trail, "Normal")
                  /\ UNCHANGED <<df, exc>>
    /\ UNCHANGED <<file, sheet_name, encoding, data_for_header, header_row,
                   headers, duplicate_stats, result, cleaned>>
    /\ UNCHANGED service

\* lines 161-168
Checkpoint ==
    /\ pc = "checkpoint"
    /\ \E t \in ClockReadings :
          /\ elapsed_time' = t
          /\ df' = IF OverBudget(t) THEN LimitRows(df) ELSE df
          /\ trail' = Append(trail, IF OverBudget(t) /\ df' /= df
                                    THEN "TimeoutDegraded" ELSE "Normal")
    /\ pc' = "stats"
    /\ UNCHANGED <<file, sheet_name, encoding, data_for_header, header_row,
                   headers, duplicate_stats, exc, result, cleaned>>
    /\ UNCHANGED service

\* a slip: the header row is not counted
InitialRowsNoHeader(d, h) == DfLen(d) + h

\* len(df) + header_row + 1
InitialRows(d, h) == DfLen(d) + h + 1

\* lines 171-183
Stats ==
    [initial_rows |-> InitialRows(df, header_row),
     initial_cols |-> Len(df.columns),
     final_rows |-> DfLen(df),
     final_cols |-> Len(df.columns),
     empty_rows_removed |-> InitialRows(df, header_row) - DfLen(df),
     empty_cols_removed |-> Len(headers) - Len(df.columns),
     duplicate_columns |-> duplicate_stats.duplicate_counts,
     renamed_columns |-> duplicate_stats.renamed_columns,
     file_type |-> LStripDots(FileExtension),
     encoding |-> IF FileExtension = DotCsv THEN encoding ELSE "None",
     processing_time_seconds |-> elapsed_time]

\* lines 171-185
ComputeStats ==
    /\ pc = "stats"
    /\ result' = [table |-> df, stats |-> Stats]
    /\ pc' = "done"
    /\ trail' = trail \o <<"StatsComputed", "Done">>
    /\ UNCHANGED <<file, sheet_name, encoding, df, data_for_header,
                   header_row, headers, duplicate_stats, elapsed_time, exc,
                   cleaned>>
    /\ UNCHANGED service

\* lines 188-199: str(e), with the sheets of the file when the index is out
\* of range and the file can be opened again
ErrorMessage(e) ==
    IF e.out_of_range /\ IsInt(sheet_name) /\ file.exists /\ file.valid
    THEN [text |-> "Sheet index is out of range. File has sheets. Available sheets",
          sheet_index |-> sheet_name.i,
          sheet_count |-> file.sheet_count,
          sheet_names |-> SheetNames(file.sheet_count)]
    ELSE [text |-> e.text, sheet_index |-> e.sheet_index,
          sheet_count |-> e.sheet_count, sheet_names |-> e.sheet_names]

\* lines 187-206
HandleException ==
    /\ pc = "except"
    /\ \E t \in ClockReadings :
          result' = [table |-> None,
                     stats |-> [error |-> ErrorMessage(exc),
                                file_path |-> file.name,
                                file_extension |-> SuffixLower(file.name),
                                elapsed_time |-> t]]
    /\ pc' = "done"
    /\ trail' = Append(trail, "Failed")
    /\ UNCHANGED <<file, sheet_name, encoding, df, data_for_header,
                   header_row, headers, duplicate_stats, elapsed_time, exc,
                   cleaned>>
    /\ UNCHANGED service

----------------------------------------------------------------------------
(* The files and selectors the pipeline is run on *)

X_       == Text(<<"x">>)
Empty_   == Text(<<>>)
Nan_     == Text(<<"n", "a", "n">>)
NullWord == Text(<<"n", "u", "l", "l">>)
Title_   == Text(<<"T", "i", "t", "l", "e">>)

HdrRows ==
    {<<A_, B_, C_>>, <<A_, A_2, A_>>, <<A_, B_, A_>>, <<A_sp, A_, Null>>}

TitleRows == {<<Title_, Null, Null>>, <<Num(1), Null, Null>>}

DataRows ==
    {<<Num(1), Num(2), X_>>, <<Empty_, Nan_, Num(1)>>, <<Null, Null, Null>>,
     <<X_, NullWord, Date>>}

\* no marked row; a header on top; two title rows, then the header; a text
\* row beyond the rows that are scanned
MarkSets ==
    {<<>>}
      \cup {[i \in {0} |-> h] : h \in HdrRows}
      \cup {[i \in {0, 1, 2} |-> IF i = 2 THEN h ELSE t] :
               h \in HdrRows, t \in TitleRows}
      \cup {[i \in {HeaderScanLimit} |-> h] : h \in HdrRows}

RowCounts ==
    {0, 1, 3, HeaderScanLimit + 2,
     TimeoutRowCap + 1, TimeoutRowCap + 2, TimeoutRowCap + 3,
     LimitedRows + 1, LimitedRows + 2, SkipRows + 1, SkipRows + 2}

Sheets ==
    {sh \in [n : RowCounts, width : {3}, fill : DataRows, marks : MarkSets] :
        \A i \in DOMAIN sh.marks : i < sh.n}

PlainSheet ==
    [n |-> 3, width |-> 3, fill |-> <<Num(1), Num(2), X_>>,
     marks |-> [i \in {0} |-> <<A_, B_, C_>>]]

AllEncodings == {"utf-8", "cp1252", "iso-8859-1", "latin1"}

NoCsv == [detected |-> "none", confidence |-> 0, decodes |-> {}]

CsvContents ==
    {[detected |-> "utf-8", confidence |-> 99, decodes |-> AllEncodings],
     [detected |-> "ascii", confidence |-> 100,
      decodes |-> AllEncodings \cup {"ascii"}],
     [detected |-> "ascii", confidence |-> ConfidencePercent - 1,
      decodes |-> AllEncodings \cup {"ascii"}],
     [detected |-> "Windows-1254", confidence |-> ConfidencePercent - 1,
      decodes |-> {"iso-8859-1", "latin1"}],
     [detected |-> "none", confidence |-> 0, decodes |-> AllEncodings],
     [detected |-> "Windows-1254", confidence |-> ConfidencePercent - 1,
      decodes |-> {"cp1252", "iso-8859-1", "latin1"}],
     [detected |-> "Windows-1254", confidence |-> ConfidencePercent,
      decodes |-> {"iso-8859-1", "latin1"}]}

CsvName   == <<"b", ".", "c", "s", "v">>
CsvUpper  == <<"b", ".", "C", "S", "V">>
XlsxName  == <<"b", ".", "x", "l", "s", "x">>
XlsxUpper == <<"b", ".", "X", "L", "S", "X">>
TxtName   == <<"b", ".", "t", "x", "t">>
BareName  == <<"b">>

Sizes == {LargeFileMb * BytesPerMb, LargeFileMb * BytesPerMb + 1}

Selectors ==
    {NoSel, IntSel(0), IntSel(1), IntSel(5), StrSel("Sheet1"), StrSel("Data")}

File(name, exists, size, valid, count, sheet, csv) ==
    [name |-> name, exists |-> exists, size |-> size, valid |-> valid,
     sheet_count |-> count, sheet |-> sheet, csv |-> csv]

\* CSV files: <<file, selector>>
CsvInputs ==
    {<<File(nm, TRUE, 1, FALSE, 0, sh, c), IntSel(0)>> :
        nm \in {CsvName, CsvUpper}, c \in CsvContents,
        sh \in {s \in Sheets : s.n <= 3}}

\* paths with no file behind them
MissingInputs ==
    {<<File(nm, FALSE, 0, FALSE, 0, PlainSheet, NoCsv), IntSel(0)>> :
        nm \in {CsvName, XlsxName, TxtName}}

\* files that are no workbook
InvalidInputs ==
    {<<File(nm, TRUE, sz, FALSE, 0, PlainSheet, NoCsv), sel>> :
        nm \in {XlsxName, TxtName, BareName}, sz \in Sizes,
        sel \in {NoSel, IntSel(0), IntSel(5)}}

\* workbooks of one or three sheets, every selector
SelectorInputs ==
    {<<File(nm, TRUE, sz, TRUE, k, PlainSheet, NoCsv), sel>> :
        nm \in {XlsxName, XlsxUpper, TxtName}, sz \in Sizes, k \in {1, 3},
        sel \in Selectors}

\* workbooks of every content, their first sheet selected
WorkbookInputs ==
    {<<File(XlsxName, TRUE, sz, TRUE, 3, sh, NoCsv), sel>> :
        sz \in Sizes, sh \in Sheets, sel \in {NoSel, IntSel(0)}}

Inputs ==
    CsvInputs \cup MissingInputs \cup InvalidInputs \cup SelectorInputs
        \cup WorkbookInputs

\* process_excel_file is entered with one of the given <<file, selector>>
Started(inputs) ==
    /\ pc = "start"
    /\ \E inp \in inputs :
          /\ file = inp[1]
          /\ sheet_name = inp[2]
    /\ encoding = NoEncoding
    /\ df = None
    /\ data_for_header = None
    /\ header_row = NoRow
    /\ headers = <<>>
    /\ duplicate_stats = None
    /\ elapsed_time = NoTime
    /\ exc = None
    /\ result = None
    /\ cleaned = None
    /\ trail = <<>>

Init ==
    /\ Started(Inputs)
    /\ IdleService

Next ==
    \/ ReadCsv
    \/ GetSizeFails
    \/ ReadExcelLarge
    \/ ReadExcel
    \/ FindHeader
    \/ SetHeaders
    \/ Dedup
    \/ Clean
    \/ Checkpoint
    \/ ComputeStats
    \/ HandleException

Spec == Init /\ [][Next]_vars

\* the inputs of the runs that are followed to their end
LiveInputs ==
    {inp \in Inputs :
        \/ inp[1].sheet = PlainSheet
        \/ inp[1].sheet.n \in {0, TimeoutRowCap + 2} /\ inp[2] = NoSel}

InitLive ==
    /\ Init
    /\ <<file, sheet_name>> \in LiveInputs

\* the call is one sequential thread: once started it keeps taking steps
SpecLive == InitLive /\ [][Next]_vars /\ WF_vars(Next)

----------------------------------------------------------------------------
(* _clean_dataframe called on its own, on every table of a bounded set *)

\* the columns of the tables
CleanWidth == 12

Label(j) == <<"c">> \o Digits(j)

\* labels that differ once trimmed; the first two columns bearing one label;
\* the last two columns bearing one label
CleanLabels ==
    {[j \in 1..CleanWidth |->
         IF j = 1 THEN <<" ">> \o Label(1) \o <<" ">> ELSE Label(j)],
     [j \in 1..CleanWidth |-> IF j = 2 THEN Label(1) ELSE Label(j)],
     [j \in 1..CleanWidth |->
         IF j = CleanWidth THEN Label(CleanWidth - 1) ELSE Label(j)]}

CleanFillRows ==
    {[j \in 1..CleanWidth |-> Empty_],
     [j \in 1..CleanWidth |-> IF j % 2 = 1 THEN Empty_ ELSE Nan_],
     [j \in 1..CleanWidth |-> IF j = 3 THEN Num(1) ELSE Empty_],
     [j \in 1..CleanWidth |->
         IF j = 1 THEN Num(1)
         ELSE IF j = 2 THEN Null
         ELSE IF j % 3 = 0 THEN NullWord
         ELSE IF j % 3 = 1 THEN Empty_ ELSE X_]}

\* k rows on top holding k different texts in column col
DistinctTexts(k, col) ==
    [i \in 0..(k - 1) |->
        [j \in 1..CleanWidth |->
            IF j = col THEN Text(<<"v">> \o Digits(i)) ELSE Empty_]]

CleanMarkSets ==
    {<<>>,
     [i \in {0} |-> [j \in 1..CleanWidth |-> X_]],
     [i \in {0} |-> [j \in 1..CleanWidth |->
                        IF j = 3 THEN Empty_ ELSE Num(2)]],
     DistinctTexts(UniqueLimit - 2, 2),
     DistinctTexts(UniqueLimit - 1, 2),
     DistinctTexts(UniqueLimit, 2)}

CleanRowCounts ==
    {UniqueLimit, UniqueLimit + 1, LimitedRows, LimitedRows + 1,
     SkipRows, SkipRows + 1}

CleanTables ==
    {[sheet |-> [n |-> n, width |-> CleanWidth, fill |-> f, marks |-> ms],
      lo |-> 0, hi |-> n, columns |-> lab,
      na |-> [j \in 1..CleanWidth |-> {}]] :
        n \in CleanRowCounts, f \in CleanFillRows, ms \in CleanMarkSets,
        lab \in CleanLabels}

\* df is the table as it is given, cleaned the table that is returned
InitClean ==
    /\ pc = "call_clean_dataframe"
    /\ df \in CleanTables
    /\ cleaned = None
    /\ exc = None
    /\ file = None
    /\ sheet_name = NoSel
    /\ encoding = NoEncoding
    /\ data_for_header = None
    /\ header_row = NoRow
    /\ headers = <<>>
    /\ duplicate_stats = None
    /\ elapsed_time = NoTime
    /\ result = None
    /\ trail = <<>>
    /\ IdleService

CallCleanDataframe ==
    /\ pc = "call_clean_dataframe"
    /\ IF CleanRaises(df)
       THEN /\ exc' = AmbiguousTruthValue
            /\ pc' = "raised"
            /\ UNCHANGED cleaned
       ELSE /\ cleaned' = CleanDataframe(df)
            /\ pc' = "returned"
            /\ UNCHANGED exc
    /\ UNCHANGED <<file, sheet_name, encoding, df, data_for_header,
                   header_row, headers, duplicate_stats, elapsed_time, result,
                   trail>>
    /\ UNCHANGED service

SpecClean == InitClean /\ [][CallCleanDataframe]_vars

----------------------------------------------------------------------------
(* The upload handler of src/api.py: two requests, one raw folder, and a    *)
(* worker that takes the queued tasks one at a time.                        *)

\* the variables of a call while no call is running
IdleCall ==
    /\ pc = "idle"
    /\ IdleLocals
    /\ data_for_header = None
    /\ header_row = NoRow
    /\ headers = <<>>
    /\ duplicate_stats = None

\* processor.process_excel_file(file_path, sheet_name=sheet_index) is entered
\* with f stored at file_path
Enter(f, sel) ==
    /\ pc' = "start"
    /\ file' = f
    /\ sheet_name' = sel
    /\ encoding' = NoEncoding
    /\ df' = None
    /\ data_for_header' = None
    /\ header_row' = NoRow
    /\ headers' = <<>>
    /\ duplicate_stats' = None
    /\ elapsed_time' = NoTime
    /\ exc' = None
    /\ result' = None
    /\ cleaned' = None
    /\ trail' = <<>>

\* test.json: the file names that have a mapping, and the sheet index of each
Mappings == [nm \in {XlsxName, CsvName} |-> 0]

\* the file names a client may send
UploadNames == {XlsxName, CsvName, TxtName}

LongSheet ==
    [n |-> TimeoutRowCap + 2, width |-> 3, fill |-> <<Empty_, Nan_, Num(1)>>,
     marks |-> [i \in {0} |-> <<A_, B_, C_>>]]

\* the bytes a client may send: two workbooks, a workbook above 100 MB,
\* bytes that are no workbook, and CSV text
UploadBodies ==
    {File(BareName, TRUE, 1, TRUE, 3, PlainSheet, NoCsv),
     File(BareName, TRUE, 1, TRUE, 3, LongSheet, NoCsv),
     File(BareName, TRUE, LargeFileMb * BytesPerMb + 1, TRUE, 3, PlainSheet,
          NoCsv),
     File(BareName, TRUE, 1, FALSE, 0, PlainSheet, NoCsv),
     File(BareName, TRUE, 1, FALSE, 0, PlainSheet,
          [detected |-> "utf-8", confidence |-> 99, decodes |-> AllEncodings])}

NoPath == <<>>

\* the requests
Clients == {1, 2}

\* a request as upload receives it: "contents = await file.read()" and
\* "filename = file.filename"
Received(filename, contents) ==
    [pc |-> "received", filename |-> filename, contents |-> contents,
     file_path |-> NoPath, sheet_index |-> NoSel, result |-> None]

\* os.path.join(self.raw_folder, filename): one folder, so the name is the path
RawPath(filename) == filename

\* what open(file_path, "wb").write(file_bytes) leaves at the path
Stored(filename, contents) == [contents EXCEPT !.name = filename]

\* the folder after a write to path
Written(path, f) ==
    [p \in DOMAIN disk \cup {path} |-> IF p = path THEN f ELSE disk[p]]

InitUpload ==
    /\ IdleCall
    /\ disk = <<>>
    /\ requests \in
           {[c \in Clients |-> Received(nm[c], body[c])] :
               nm \in [Clients -> UploadNames],
               body \in [Clients -> UploadBodies]}
    /\ running = 0
    /\ task = None
    /\ storage = None
    /\ database = None
    /\ state = "PENDING"
    /\ stream = None

\* api.py line 69 and file_processor.py lines 63-69
SaveUploadedFile(c) ==
    /\ requests[c].pc = "received"
    /\ disk' = Written(RawPath(requests[c].filename),
                       Stored(requests[c].filename, requests[c].contents))
    /\ requests' = [requests EXCEPT
                       ![c].pc = "saved",
                       ![c].file_path = RawPath(requests[c].filename)]
    /\ UNCHANGED <<call, running, task, storage, database, state, stream>>

\* api.py lines 72-77: get_file_mapping raises HTTPException(400) for a name
\* without a mapping; otherwise process_file.delay(file_path, sheet_index)
Enqueue(c) ==
    /\ requests[c].pc = "saved"
    /\ IF requests[c].filename \in DOMAIN Mappings
       THEN requests' = [requests EXCEPT
                            ![c].pc = "queued",
                            ![c].sheet_index =
                                IntSel(Mappings[requests[c].filename])]
       ELSE requests' = [requests EXCEPT ![c].pc = "rejected"]
    /\ UNCHANGED <<call, disk, running, task, storage, database, state,
                   stream>>

\* tasks.py line 25: the worker starts the task of request c, and the
\* pipeline opens what is at file_path now
StartTask(c) ==
    /\ running = 0
    /\ requests[c].pc = "queued"
    /\ Enter(disk[requests[c].file_path], requests[c].sheet_index)
    /\ running' = c
    /\ requests' = [requests EXCEPT ![c].pc = "processing"]
    /\ UNCHANGED <<disk, task, storage, database, state, stream>>

\* the steps of the pipeline in the worker; the file is there, so
\* os.path.getsize does not fail
Work ==
    /\ running /= 0
    /\ \/ ReadCsv
       \/ ReadExcelLarge
       \/ ReadExcel
       \/ FindHeader
       \/ SetHeaders
       \/ Dedup
       \/ Clean
       \/ Checkpoint
       \/ ComputeStats
       \/ HandleException

\* "df, stats = processor.process_excel_file(...)" has returned: the result
\* is the one of the request whose task ran
Deliver ==
    /\ running /= 0
    /\ pc = "done"
    /\ requests' = [requests EXCEPT ![running].pc = "finished",
                                    ![running].result = result]
    /\ running' = 0
    /\ UNCHANGED <<call, disk, task, storage, database, state, stream>>

NextUpload ==
    \/ \E c \in Clients : SaveUploadedFile(c)
    \/ \E c \in Clients : Enqueue(c)
    \/ \E c \in Clients : StartTask(c)
    \/ Work
    \/ Deliver

SpecUpload == InitUpload /\ [][NextUpload]_vars

----------------------------------------------------------------------------
(* The storage handler of src/utils/spaces.py *)

\* DO_ENDPOINT and DO_SPACES_BUCKET
EndpointUrl == "endpoint"
BucketName == "bucket"

\* a text that is bound, as opposed to None
Str(parts) == [bound |-> TRUE, s |-> parts]

\* DOSpacesHandler.__init__ with one of the four settings missing
MissingConfiguration ==
    Error("ValueError", "Missing required Digital Ocean Spaces configuration")

\* df.empty
DfEmpty(d) == DfLen(d) = 0 \/ Len(d.columns) = 0

\* upload_dataframe_as_parquet: it raises for no table or an empty one and
\* when put_object fails (ok is FALSE); otherwise it returns the metadata of
\* the object written under folder_path/project_id/sheet_type/stamp.parquet
UploadDataframeAsParquet(d, project_id, sheet_type, folder_path, stamp, ok) ==
    IF d = None \/ DfEmpty(d)
    THEN [raised |-> Error("ValueError", "Cannot upload empty DataFrame"),
          value |-> None]
    ELSE IF ~ok
    THEN [raised |-> Error("ClientError", "put_object failed"),
          value |-> None]
    ELSE [raised |-> None,
          value |->
              [file_url |-> Str(<<EndpointUrl, BucketName, folder_path,
                                  project_id, sheet_type, stamp>>),
               file_path |-> Str(<<folder_path, project_id, sheet_type,
                                   stamp>>),
               project_id |-> project_id,
               sheet_type |-> sheet_type,
               rows |-> DfLen(d),
               columns |-> Len(d.columns)]]

\* a slip: the key of the object is returned, not its URL
ConvertReturnsFilePath(d, project_id, sheet_type, configured, stamp, ok) ==
    IF ~configured
    THEN [constructed |-> 1, calls |-> <<>>, outs |-> <<>>,
          raised |-> MissingConfiguration, value |-> None]
    ELSE LET out == UploadDataframeAsParquet(d, project_id, sheet_type,
                                             "processed_data", stamp, ok)
         IN  [constructed |-> 1,
              calls |-> <<[df |-> d, project_id |-> project_id,
                           sheet_type |-> sheet_type,
                           folder_path |-> "processed_data"]>>,
              outs |-> <<out>>,
              raised |-> out.raised,
              value |-> IF out.raised = None THEN out.value.file_path
                        ELSE None]

\* FileProcessor.convert_to_parquet_and_upload(df, project_id, sheet_type):
\* the handlers it constructs, the calls of upload_dataframe_as_parquet it
\* makes with their outcomes, and what it raises or returns
ConvertToParquetAndUpload(d, project_id, sheet_type, configured, stamp, ok) ==
    IF ~configured
    THEN [constructed |-> 1, calls |-> <<>>, outs |-> <<>>,
          raised |-> MissingConfiguration, value |-> None]
    ELSE LET out == UploadDataframeAsParquet(d, project_id, sheet_type,
                                             "processed_data", stamp, ok)
         IN  [constructed |-> 1,
              calls |-> <<[df |-> d, project_id |-> project_id,
                           sheet_type |-> sheet_type,
                           folder_path |-> "processed_data"]>>,
              outs |-> <<out>>,
              raised |-> out.raised,
              value |-> IF out.raised = None THEN out.value.file_url
                        ELSE None]

----------------------------------------------------------------------------
(* update_database_with_space_link (src/tasks.py) *)

\* where the try block may raise: nowhere; in create_engine or Session(),
\* before session is bound; in a query; in commit
DbFaults == {"none", "connect", "query", "commit"}

\* the rows the queries find: the project, the file's metadata with its
\* sheets, a SheetData row of the first sheet
RowShapes ==
    {[project |-> p, sheets |-> s, sheet_data |-> sd] :
        p \in BOOLEAN, s \in BOOLEAN, sd \in BOOLEAN}

\* tasks.py binds no module-level name logger: the one of process_file
\* (lines 21-22) is local to it
LoggerBound == FALSE

NameError == Error("NameError", "name 'logger' is not defined")

\* "if session:" of the handler and of the finally clause
SessionBound(fault) == fault /= "connect"

DbError(fault) ==
    IF fault = "none" THEN None ELSE Error("SQLAlchemyError", fault)

\* lines 67-114: the calls the try block makes on the session
TryCalls(fault) ==
    CASE fault = "connect" -> <<>>
      [] fault = "query" -> <<"Session">>
      [] OTHER -> <<"Session", "commit">>

\* lines 116-119: logger.error comes first; rollback follows it
ExceptCalls(fault) ==
    IF fault /= "none" /\ LoggerBound /\ SessionBound(fault)
    THEN <<"rollback">> ELSE <<>>

\* lines 120-122
FinallyCalls(fault) == IF SessionBound(fault) THEN <<"close">> ELSE <<>>

\* what leaves the function: an exception raised inside the handler
Propagated(fault) ==
    IF fault /= "none" /\ ~LoggerBound THEN NameError ELSE None

NoSession ==
    [rows |-> None, raised |-> None, propagated |-> None, calls |-> <<>>,
     project_link |-> None, sheet_link |-> None]

\* the whole call: what was raised inside the try block, the calls made on
\* the session, what left the function, and the links the commit wrote
UpdateDatabaseWithSpaceLink(space_link, fault, rows) ==
    [rows |-> rows,
     raised |-> DbError(fault),
     propagated |-> Propagated(fault),
     calls |-> TryCalls(fault) \o ExceptCalls(fault) \o FinallyCalls(fault),
     project_link |->
         IF fault = "none" /\ rows.project THEN space_link ELSE None,
     sheet_link |->
         IF fault = "none" /\ rows.sheets THEN space_link ELSE None]

----------------------------------------------------------------------------
(* The task process_file (src/tasks.py) and the status stream of upload     *)
(* (src/api.py)                                                             *)

\* project_id = None and sheet_type = None
NoProject == 0 - 1
NoSheetType == "None"

\* the rows of the preview
PreviewRows == 10

\* the arguments process_file is called with after file_path and sheet_index
TaskArgs == {<<NoProject, NoSheetType>>, <<123, "SAP">>, <<123, NoSheetType>>}

\* the polls of the status stream that are followed
MaxPolls == 4

\* dict.get(key, default)
Get(d, key, default) == IF key \in DOMAIN d THEN d[key] ELSE default

\* the column a label stands for in a record: the last one that bears it
LastBearer(columns, label) ==
    CHOOSE j \in 1..Len(columns) :
        /\ columns[j] = label
        /\ \A k \in (j + 1)..Len(columns) : columns[k] /= label

\* df.head(10).to_dict(orient="records")
ToRecords(d) ==
    [i \in 1..Min(DfLen(d), PreviewRows) |->
        [label \in Range(d.columns) |->
            DfCell(d, i - 1, LastBearer(d.columns, label))]]

\* a slip: the upload is tried whether or not there is a table
UploadsWithoutTable(d, project_id, sheet_type) ==
    project_id /= NoProject /\ sheet_type /= NoSheetType

\* "if df is not None:" and, inside it, "if project_id is not None and
\* sheet_type is not None:"
Uploads(d, project_id, sheet_type) ==
    d /= None /\ project_id /= NoProject /\ sheet_type /= NoSheetType

NewTask(project_id, sheet_type) ==
    [pc |-> "process", project_id |-> project_id, sheet_type |-> sheet_type,
     preview |-> <<>>, space_link |-> None, caught |-> None,
     returned |-> None]

NoStorage == [constructed |-> 0, calls |-> <<>>, outs |-> <<>>]

NewStream == [pc |-> "start", events |-> <<>>, polled |-> <<>>]

\* the inputs of the calls the task makes
TaskInputs == LiveInputs

InitTask ==
    /\ Started(TaskInputs)
    /\ disk = <<>>
    /\ requests = <<>>
    /\ running = 0
    /\ task \in {NewTask(a[1], a[2]) : a \in TaskArgs}
    /\ storage = NoStorage
    /\ database = NoSession
    /\ state = "PENDING"
    /\ stream = NewStream

\* lines 25-36: the pipeline has returned; preview and the way on
Preview ==
    /\ task.pc = "process"
    /\ pc = "done"
    /\ task' = [task EXCEPT
                   !.preview = IF result.table /= None
                               THEN ToRecords(result.table) ELSE <<>>,
                   !.pc = IF Uploads(result.table, task.project_id,
                                     task.sheet_type)
                          THEN "upload" ELSE "summary"]
    /\ UNCHANGED <<call, disk, requests, running, storage, database, state,
                   stream>>

\* lines 37-39 and 45-46: the upload, whose exceptions are logged
Upload ==
    /\ task.pc = "upload"
    /\ \E configured \in BOOLEAN, ok \in BOOLEAN :
          LET r == ConvertToParquetAndUpload(result.table, task.project_id,
                                             task.sheet_type, configured,
                                             "stamp", ok)
          IN  /\ storage' =
                     [constructed |-> storage.constructed + r.constructed,
                      calls |-> storage.calls \o r.calls,
                      outs |-> storage.outs \o r.outs]
              /\ task' = IF r.raised /= None
                         THEN [task EXCEPT !.caught = r.raised,
                                           !.pc = "summary"]
                         ELSE [task EXCEPT !.space_link = r.value,
                                           !.pc = "update"]
    /\ UNCHANGED <<call, disk, requests, running, database, state, stream>>

\* lines 42 and 45-46: the database update, whose exceptions are logged
UpdateDatabase ==
    /\ task.pc = "update"
    /\ \E fault \in DbFaults, rows \in RowShapes :
          /\ database' =
                 UpdateDatabaseWithSpaceLink(task.space_link, fault, rows)
          /\ task' = [task EXCEPT !.caught = database'.propagated,
                                  !.pc = "summary"]
    /\ UNCHANGED <<call, disk, requests, running, storage, state, stream>>

\* lines 49-62: the summary and the return; the backend stores the result
Summary ==
    /\ task.pc = "summary"
    /\ task' = [task EXCEPT
                   !.pc = "returned",
                   !.returned =
                       [preview |-> task.preview,
                        summary |->
                            [total_rows |->
                                 Get(result.stats, "final_rows", 0),
                             total_columns |->
                                 Get(result.stats, "final_cols", 0),
                             processing_time |->
                                 Get(result.stats,
                                     "processing_time_seconds", 0),
                             stats |-> result.stats,
                             space_link |-> task.space_link]]]
    /\ state' = "SUCCESS"
    /\ UNCHANGED <<call, disk, requests, running, storage, database, stream>>

\* a slip: the loop also ends on a revoked task
BreaksOnReady(st) == st \in {"SUCCESS", "FAILURE", "REVOKED"}

\* the states in which the loop reaches a break
Breaks(st) == st \in {"SUCCESS", "FAILURE"}

\* "payload = res.result or {}"
Payload == IF task = None \/ task.returned = None THEN <<>> ELSE task.returned

\* the events one round of the loop yields on reading state st
Yielded(st) ==
    CASE st = "STARTED" -> <<[status |-> "processing"]>>
      [] st = "SUCCESS" ->
             <<[status |-> "done",
                preview |-> Get(Payload, "preview", <<>>),
                summary |-> Get(Payload, "summary", <<>>)]>>
      [] st = "FAILURE" -> <<[status |-> "error"]>>
      [] OTHER -> <<>>

\* api.py lines 82-83
StreamOpen ==
    /\ stream.pc = "start"
    /\ stream' = [stream EXCEPT
                     !.pc = "polling",
                     !.events = <<[status |-> "uploaded"],
                                  [status |-> "reading"]>>]
    /\ UNCHANGED <<call, disk, requests, running, task, storage, database,
                   state>>

\* api.py lines 85-117: one round of "while True"
Poll ==
    /\ stream.pc = "polling"
    /\ Len(stream.polled) < MaxPolls
    /\ stream' = [stream EXCEPT
                     !.pc = IF Breaks(state) THEN "closed" ELSE "polling",
                     !.events = @ \o Yielded(state),
                     !.polled = Append(@, state)]
    /\ UNCHANGED <<call, disk, requests, running, task, storage, database,
                   state>>

NextTask ==
    \/ Next
    \/ Preview
    \/ Upload
    \/ UpdateDatabase
    \/ Summary
    \/ StreamOpen
    \/ Poll

SpecTask == InitTask /\ [][NextTask]_vars

\* the states a task may be reported in
TaskStates ==
    {"PENDING", "STARTED", "RETRY", "REVOKED", "SUCCESS", "FAILURE"}

\* the states a task does not leave
FinalStates == {"REVOKED", "SUCCESS", "FAILURE"}

InitStream ==
    /\ IdleCall
    /\ disk = <<>>
    /\ requests = <<>>
    /\ running = 0
    /\ task = None
    /\ storage = None
    /\ database = None
    /\ state = "PENDING"
    /\ stream = NewStream

\* line 87: what AsyncResult(task.id).state reads is the backend's to change
Backend ==
    /\ state \notin FinalStates
    /\ state' \in TaskStates \ {state}
    /\ UNCHANGED <<call, disk, requests, running, task, storage, database,
                   stream>>

NextStream ==
    \/ StreamOpen
    \/ Poll
    \/ Backend

SpecStream == InitStream /\ [][NextStream]_vars

----------------------------------------------------------------------------
(* Claims about _handle_duplicate_columns *)

\* the labels the pass works on: the header cells as trimmed strings
Labels == HeaderList(headers)

\* how many of the first i labels equal the i-th
OccurrenceNo(hl, i) == Cardinality({p \in 1..i : hl[p] = hl[i]})

\* how many labels equal h
Total(hl, h) == Cardinality({p \in 1..Len(hl) : hl[p] = h})

\* the positions holding a second or later occurrence of their label
LaterOccurrences(hl) == {i \in 1..Len(hl) : OccurrenceNo(hl, i) > 1}

\* "{label} ({word} {1-based column index})"
KeyWith(word, h, i) ==
    h \o <<" ", "(">> \o word \o <<" ">> \o Digits(i) \o <<")">>

WordCol == <<"C", "o", "l">>

WordPosition == <<"p", "o", "s", "i", "t", "i", "o", "n">>

\* C4: the n-th occurrence of a (trimmed) label H is named H for n = 1 and
\* H_n for n > 1, so a label occurring k times gives H, H_2, ..., H_k from
\* left to right and a label occurring once is kept; the final list has the
\* header's length and positions.
C4_OccurrenceNaming ==
    duplicate_stats /= None =>
        LET fh == duplicate_stats.final_headers
        IN  /\ Len(fh) = Len(Labels)
            /\ \A i \in 1..Len(Labels) :
                   fh[i] = IF OccurrenceNo(Labels, i) = 1 THEN Labels[i]
                           ELSE Labels[i] \o <<"_">>
                                    \o Digits(OccurrenceNo(Labels, i))

\* a header with a label occurring three times, once spelled with blanks
C4_Witness ==
    /\ duplicate_stats /= None
    /\ \E i \in 1..Len(Labels) :
           /\ OccurrenceNo(Labels, i) = 3
           /\ duplicate_stats.final_headers[i] = <<"A", "_", "3">>
    /\ \E i \in 1..Len(headers) : headers[i] = A_sp
    /\ \E i \in 1..Len(Labels) : Total(Labels, Labels[i]) = 1

\* C5: duplicate_counts holds exactly the trimmed labels occurring more than
\* once, each with its total number of occurrences.
C5_DuplicateCounts ==
    duplicate_stats /= None =>
        LET dc == duplicate_stats.duplicate_counts
        IN  /\ DOMAIN dc =
                  {Labels[i] : i \in {p \in 1..Len(Labels) :
                                         Total(Labels, Labels[p]) > 1}}
            /\ \A h \in DOMAIN dc : dc[h] = Total(Labels, h)

\* header [A, B, A, C, A] gives {A: 3}
C5_Witness ==
    /\ duplicate_stats /= None
    /\ headers = <<A_, B_, A_, C_, A_>>
    /\ duplicate_stats.duplicate_counts = [h \in {<<"A">>} |-> 3]
    /\ duplicate_stats.final_headers =
          <<(<<"A">>), (<<"B">>), (<<"A", "_", "2">>), (<<"C">>),
            (<<"A", "_", "3">>)>>

\* the rename map has one entry per later occurrence, keyed by the label,
\* the given word and the 1-based position, holding the final label there
RenameMapKeyedBy(word) ==
    duplicate_stats /= None =>
        LET rc == duplicate_stats.renamed_columns
            later == LaterOccurrences(Labels)
        IN  /\ DOMAIN rc = {KeyWith(word, Labels[i], i) : i \in later}
            /\ Cardinality(DOMAIN rc) = Cardinality(later)
            /\ \A i \in later :
                   rc[KeyWith(word, Labels[i], i)] =
                       duplicate_stats.final_headers[i]

----------------------------------------------------------------------------
(* Claims about _find_header_row *)

\* the rows of the sample that are scanned
Scanned(d) == 0..(Min(20, DfLen(d)) - 1)

\* the scanned rows that are not skipped as numeric
Remaining(d) ==
    {i \in Scanned(d) :
        ~(NumericCount(DfRow(d, i)) > StringCount(DfRow(d, i)))}

\* the remaining rows no remaining row has more non-null cells than
Fullest(d) ==
    {i \in Remaining(d) :
        /\ NonNullCount(DfRow(d, i)) > 0
        /\ \A k \in Remaining(d) :
               NonNullCount(DfRow(d, k)) <= NonNullCount(DfRow(d, i))}

\* C7: _find_header_row returns the lowest-indexed row, among the rows
\* 0..min(20, n)-1 that are not skipped (numeric count > string count), whose
\* non-null count is the maximum among them, and 0 when there is none (all
\* rows skipped or all remaining rows entirely null).
C7_FindHeaderRow ==
    (pc = "returned" /\ header_row /= NoRow) =>
        LET best == Fullest(data_for_header)
        IN  IF best = {} THEN header_row = 0
            ELSE /\ header_row \in best
                 /\ \A i \in best : header_row <= i

\* a sample of more than 20 rows: fuller numeric rows were skipped, before
\* and after the row returned, and a fuller text row lies beyond row 19
C7_Witness ==
    /\ pc = "returned"
    /\ header_row = 1
    /\ DfLen(data_for_header) > 20
    /\ \E i \in Scanned(data_for_header) \ Remaining(data_for_header) :
           NonNullCount(DfRow(data_for_header, i)) >
               NonNullCount(DfRow(data_for_header, header_row))
    /\ NonNullCount(DfRow(data_for_header, 20)) >
           NonNullCount(DfRow(data_for_header, header_row))

----------------------------------------------------------------------------
(* Claims about process_excel_file *)

Returned == pc = "done"

Succeeded == Returned /\ result.table /= None

FastPath == "fast_processing" \in DOMAIN result.stats

FailureFields == {"error", "file_path", "file_extension", "elapsed_time"}

PairwiseDistinct(seq) ==
    \A i, j \in 1..Len(seq) : i /= j => seq[i] /= seq[j]

\* C1: the column labels of every successful result are pairwise distinct.
C1_DistinctLabels == Succeeded => PairwiseDistinct(result.table.columns)

\* C2: no exception escapes, and what the call returns is either a table
\* with its stats or no table with a failure payload of exactly the fields
\* error, file_path, file_extension and elapsed_time.
C2_ResultShape ==
    /\ pc /= "escaped"
    /\ ~Returned => result = None
    /\ Returned =>
          \/ /\ result.table /= None
             /\ DOMAIN result.stats \cap FailureFields = {}
          \/ /\ result.table = None
             /\ DOMAIN result.stats = FailureFields

\* an IndexError raised half way (an empty sheet) came back as a payload
C2_Witness ==
    /\ Returned
    /\ exc /= None
    /\ exc.type = "IndexError"
    /\ result.table = None
    /\ result.stats.error.text = "single positional indexer is out-of-bounds"

\* C3: a CSV file whose bytes decode comes back as a success payload with
\* file_type "csv" and the encoding.
C3_CsvSucceeds ==
    (Returned /\ FileExtension = DotCsv /\ file.exists
        /\ file.csv.decodes /= {}) =>
        /\ result.table /= None
        /\ result.stats.file_type = <<"c", "s", "v">>
        /\ result.stats.encoding = encoding

\* C8: on a success through the normal path,
\* 0 <= header_row <= min(19, sample_rows - 1).
C8_HeaderRowRange ==
    (Succeeded /\ ~FastPath) =>
        /\ 0 <= header_row
        /\ header_row <= Min(19, DfLen(data_for_header) - 1)

\* a success whose header is the last row of a three-row sample
C8_Witness ==
    /\ Succeeded
    /\ ~FastPath
    /\ DfLen(data_for_header) = 3
    /\ header_row = 2

\* C9: an empty header sample fails with "Could not detect header row" and
\* no table; a non-empty sample never fails header resolution.
C9_HeaderUndetected ==
    /\ (Returned /\ data_for_header /= None /\ DfLen(data_for_header) = 0) =>
          /\ result.table = None
          /\ result.stats.error.text = "Could not detect header row"
    /\ (data_for_header /= None /\ DfLen(data_for_header) > 0
           /\ pc \notin {"start", "find_header", "set_headers"}) =>
          "HeaderResolved" \in Range(trail)

\* C10: when the clock reads more than 20 seconds at the checkpoint and the
\* cleaned table has more than 1000 rows, the call goes on to return a
\* table of exactly 1000 rows.
C10_SoftDegrade ==
    (cleaned /= None /\ elapsed_time > 20 /\ DfLen(cleaned) > 1000) =>
        /\ pc \in {"stats", "done"}
        /\ DfLen(df) = 1000
        /\ Returned => (result.table /= None /\ DfLen(result.table) = 1000)

\* 1001 cleaned rows at second 21 came back as 1000
C10_Witness ==
    /\ Succeeded
    /\ elapsed_time = 21
    /\ DfLen(cleaned) = 1001
    /\ DfLen(result.table) = 1000
    /\ result.stats.final_rows = 1000

\* the checkpoint cut the cleaned table
TimeoutDegraded == "TimeoutDegraded" \in Range(trail)

\* C11: after a soft degrade final_rows is the returned table's row count,
\* 1000, initial_rows is the number of rows of the raw table that was loaded,
\* and processing_time_seconds is the elapsed time read at the checkpoint.
C11_DegradedStats ==
    (Succeeded /\ TimeoutDegraded) =>
        /\ result.stats.final_rows = DfLen(result.table)
        /\ result.stats.final_rows = 1000
        /\ result.stats.initial_rows = file.sheet.n
        /\ result.stats.processing_time_seconds = elapsed_time

\* a file that is there, is no CSV and is larger than 100 MB
LargerThan100Mb ==
    /\ FileExtension /= DotCsv
    /\ file.exists
    /\ file.size > 100 * 1024 * 1024

\* C12: a spreadsheet larger than 100 MB never goes through header
\* detection, de-duplication or cleaning; when its sheet can be read the call
\* returns the first 50,000 rows of the table at most, with the stats
\* fast_processing = true and file_size_mb only; a spreadsheet of exactly
\* 100 MB takes the normal branch.
C12_ExtraLargeFastPath ==
    /\ LargerThan100Mb =>
          /\ data_for_header = None
          /\ header_row = NoRow
          /\ headers = <<>>
          /\ duplicate_stats = None
          /\ cleaned = None
          /\ Succeeded => FastPath
          /\ (Returned /\ file.valid
                 /\ SheetFound(sheet_name, file.sheet_count)) =>
                /\ result.table /= None
                /\ DOMAIN result.stats = {"fast_processing", "file_size_mb"}
                /\ result.stats.fast_processing = TRUE
                /\ DfLen(result.table) <= 50000
                /\ result.table = DfHead(ReadExcelPandas(file.sheet), 50000)
    /\ (Succeeded /\ ~LargerThan100Mb) =>
          /\ ~FastPath
          /\ header_row /= NoRow
          /\ cleaned /= None

\* a sheet of 50,001 rows under its header came back as 50,000 rows
C12_Witness ==
    /\ Succeeded
    /\ LargerThan100Mb
    /\ FastPath
    /\ DfLen(ReadExcelPandas(file.sheet)) = 50001
    /\ DfLen(result.table) = 50000

\* C13: in every size tier, an integer sheet index at or beyond the sheet
\* count comes back as a failure payload that says the index is out of range
\* and carries the sheet count and all the sheet names.
C13_SheetIndexOutOfRange ==
    (Returned /\ FileExtension /= DotCsv /\ file.exists /\ file.valid
        /\ IsInt(sheet_name) /\ sheet_name.i >= file.sheet_count) =>
        /\ result.table = None
        /\ result.stats.error.text =
              "Sheet index is out of range. File has sheets. Available sheets"
        /\ result.stats.error.sheet_index = sheet_name.i
        /\ result.stats.error.sheet_count = file.sheet_count
        /\ result.stats.error.sheet_names = SheetNames(file.sheet_count)

RecognisedExtensions ==
    {DotCsv, <<".", "x", "l", "s", "x">>, <<".", "x", "l", "s">>,
     <<".", "x", "l", "s", "m">>, <<".", "x", "l", "s", "b">>,
     <<".", "o", "d", "s">>}

\* the exceptions of the spreadsheet readers
ReaderErrors ==
    {"CalamineError", "BadZipFile", "SheetNotFoundError", "ValueError"}

\* C14: a file whose extension is neither .csv nor a spreadsheet extension
\* comes back as an unsupported-file-type failure payload, and no reader is
\* given the file.
C14_UnsupportedFileType ==
    (Returned /\ file.exists /\ FileExtension \notin RecognisedExtensions) =>
        /\ result.table = None
        /\ exc.type \notin ReaderErrors
        /\ result.stats.error.text = "Unsupported file type"

\* C15: on the CSV path, when the bytes do not decode under the detected
\* encoding the table is read under the first of utf-8, cp1252, iso-8859-1,
\* latin1 that decodes them; when none does, the call returns no table and
\* the error "Could not read CSV with any common encoding".
C15_CsvFallback ==
    (Returned /\ FileExtension = DotCsv /\ file.exists
        /\ encoding \notin file.csv.decodes) =>
        IF file.csv.decodes \cap AllEncodings = {}
        THEN /\ result.table = None
             /\ result.stats.error.text =
                   "Could not read CSV with any common encoding"
        ELSE "Reading" \in Range(trail)

\* what the claim says detect_file_encoding returns
ExpectedEncoding(csv) ==
    LET order == <<"utf-8", "cp1252", "iso-8859-1", "latin1">>
        ok == {k \in 1..4 : order[k] \in csv.decodes}
    IN  IF csv.confidence < 70 /\ ok /= {}
        THEN order[CHOOSE k \in ok : \A m \in ok : k <= m]
        ELSE IF csv.detected = "none" THEN "utf-8" ELSE csv.detected

\* C16: detect_file_encoding returns, when the confidence is below 0.7, the
\* first of utf-8, cp1252, iso-8859-1, latin1 under which the bytes decode;
\* when the confidence is 0.7 or more, or none of the four decodes, the
\* detected encoding, or utf-8 when none was detected.
C16_DetectFileEncoding ==
    (FileExtension = DotCsv /\ file.exists /\ pc /= "start") =>
        encoding = ExpectedEncoding(file.csv)

\* low confidence, utf-8 does not decode: cp1252 is returned, not the
\* detected Windows-1254
C16_Witness ==
    /\ FileExtension = DotCsv
    /\ pc /= "start"
    /\ file.csv.confidence = 69
    /\ file.csv.detected = "Windows-1254"
    /\ "utf-8" \notin file.csv.decodes
    /\ encoding = "cp1252"

----------------------------------------------------------------------------
(* Claims about _clean_dataframe *)

\* the text-typed columns of a table
TextColumns(d) == {j \in 1..d.sheet.width : IsObjectColumn(d, j)}

\* the first k members of a set of columns, in column order
FirstOf(S, k) == {j \in S : Cardinality({i \in S : i < j}) < k}

NaWords == {<<>>, <<"n", "a", "n">>, <<"n", "u", "l", "l">>}

\* the returned table has the rows and the trimmed labels of the given one,
\* and every cell is the given cell, but for the texts of `words` in the
\* columns `cols`, which are the null marker
Replaces(cols, words) ==
    /\ cleaned.sheet = df.sheet
    /\ cleaned.lo = df.lo
    /\ cleaned.hi = df.hi
    /\ cleaned.columns = [j \in 1..Len(df.columns) |-> Strip(df.columns[j])]
    /\ \A r \in RowsIn(df.sheet, df.lo, df.hi) :
           \A j \in 1..df.sheet.width :
               CellAfterNa(cleaned, r[j], j) =
                   IF j \in cols /\ r[j].kind = "Text" /\ r[j].s \in words
                   THEN Null ELSE r[j]

CellsUntouched == Replaces({}, {})

\* the middle policy: the empty strings of the first five text columns
MiddlePolicy == Replaces(FirstOf(TextColumns(df), 5), {<<>>})

\* the thorough policy: "", "nan" and "null" in those of the first ten text
\* columns that hold fewer than 20 distinct values
ThoroughPolicy ==
    Replaces({j \in FirstOf(TextColumns(df), 10) : NUnique(df, j) < 20},
             NaWords)

\* some cell of the given table came back as the null marker
SomeCellReplaced ==
    \E r \in RowsIn(df.sheet, df.lo, df.hi) : \E j \in 1..df.sheet.width :
        r[j] /= Null /\ CellAfterNa(cleaned, r[j], j) = Null

\* C17: the policy goes by the row count: above 50,000 rows no cell is
\* touched and the labels are trimmed; from 10,001 up to and including 50,000
\* rows the middle policy applies; up to and including 10,000 rows the
\* thorough policy; cleaning raises on no table above 50,000 rows.
C17_PolicyByRowCount ==
    /\ pc = "raised" => DfLen(df) <= 50000
    /\ pc = "returned" =>
          /\ DfLen(df) > 50000 => CellsUntouched
          /\ (DfLen(df) > 10000 /\ DfLen(df) <= 50000) => MiddlePolicy
          /\ DfLen(df) <= 10000 => ThoroughPolicy

\* exactly 50,000 rows: empty strings came back null, "nan" came back as it was
C17_Witness ==
    /\ pc = "returned"
    /\ DfLen(df) = 50000
    /\ SomeCellReplaced
    /\ \E r \in RowsIn(df.sheet, df.lo, df.hi) :
           /\ r[2] = Nan_
           /\ CellAfterNa(cleaned, r[2], 2) = Nan_
    /\ ~ThoroughPolicy

\* C18: for a table of 10,001 to 50,000 rows cleaning replaces exactly the
\* empty strings of the first five text-typed columns; "nan" and "null", the
\* cells of the other columns and of non-text columns are as they were.
C18_MiddlePolicy ==
    (pc = "returned" /\ DfLen(df) >= 10001 /\ DfLen(df) <= 50000) =>
        MiddlePolicy

\* six text columns hold empty strings: the sixth kept them
C18_Witness ==
    /\ pc = "returned"
    /\ DfLen(df) = 10001
    /\ Cardinality(FirstOf(TextColumns(df), 5)) = 5
    /\ \E j \in TextColumns(df) \ FirstOf(TextColumns(df), 5) :
           \E r \in RowsIn(df.sheet, df.lo, df.hi) :
               r[j] = Empty_ /\ CellAfterNa(cleaned, r[j], j) = Empty_
    /\ \E j \in FirstOf(TextColumns(df), 5) :
           \E r \in RowsIn(df.sheet, df.lo, df.hi) :
               r[j] = Empty_ /\ CellAfterNa(cleaned, r[j], j) = Null
    /\ \E j \in 1..df.sheet.width \ TextColumns(df) :
           \E r \in RowsIn(df.sheet, df.lo, df.hi) : r[j] /= Null

\* C19 as stated: the columns cleaned are the first ten of the text-typed
\* columns that hold fewer than 20 distinct values.
C19_AsStated ==
    (pc = "returned" /\ DfLen(df) <= 10000) =>
        Replaces(FirstOf({j \in TextColumns(df) : NUnique(df, j) < 20}, 10),
                 NaWords)

\* C19, amended: for a table of at most 10,000 rows cleaning looks at the
\* first ten text-typed columns and, in those of them that hold fewer than 20
\* distinct values, replaces exactly the cells equal to "", "nan" or "null"
\* with the null marker; all other cells are unchanged.
C19_ThoroughPolicy ==
    (pc = "returned" /\ DfLen(df) <= 10000) => ThoroughPolicy

\* one of the first ten text columns holds 20 distinct values and kept its
\* empty strings; the eleventh text column kept them too
C19_Witness ==
    /\ pc = "returned"
    /\ DfLen(df) <= 10000
    /\ SomeCellReplaced
    /\ \E j \in FirstOf(TextColumns(df), 10) :
           /\ NUnique(df, j) = 20
           /\ \E r \in RowsIn(df.sheet, df.lo, df.hi) :
                  r[j] = Empty_ /\ CellAfterNa(cleaned, r[j], j) = Empty_
    /\ \E j \in TextColumns(df) \ FirstOf(TextColumns(df), 10) :
           /\ NUnique(df, j) < 20
           /\ \E r \in RowsIn(df.sheet, df.lo, df.hi) :
                  r[j] = Empty_ /\ CellAfterNa(cleaned, r[j], j) = Empty_

----------------------------------------------------------------------------
(* Claims about the stats of process_excel_file *)

\* C20: in every successful result of the normal path, initial_rows =
\* final_rows + header_row + 1, initial_cols is the number of cells of the
\* header row, final_rows and final_cols are the row and column counts of the
\* returned table, empty_rows_removed = initial_rows - final_rows and
\* empty_cols_removed = initial_cols - final_cols.
C20_StatsIdentities ==
    (Succeeded /\ ~FastPath) =>
        LET st == result.stats
        IN  /\ st.initial_rows = st.final_rows + header_row + 1
            /\ st.initial_cols = Len(headers)
            /\ st.final_rows = DfLen(result.table)
            /\ st.final_cols = Len(result.table.columns)
            /\ st.empty_rows_removed = st.initial_rows - st.final_rows
            /\ st.empty_cols_removed = st.initial_cols - st.final_cols

\* a header under two title rows: 22 rows came back as 19 with 3 removed
C20_Witness ==
    /\ Succeeded
    /\ ~FastPath
    /\ header_row = 2
    /\ result.stats.initial_rows = 22
    /\ result.stats.final_rows = 19
    /\ result.stats.empty_rows_removed = 3
    /\ result.stats.initial_cols = 3

----------------------------------------------------------------------------
(* Claims about the stages of process_excel_file *)

\* the place of a stage in the order of the stages
Rank(stage) ==
    CASE stage = "Reading" -> 1
      [] stage = "HeaderResolved" -> 2
      [] stage = "Deduplicated" -> 3
      [] stage = "Cleaning" -> 4
      [] stage \in {"Normal", "TimeoutDegraded"} -> 5
      [] stage = "StatsComputed" -> 6
      [] stage \in {"Done", "Failed"} -> 7

FullRuns ==
    {<<"Reading", "HeaderResolved", "Deduplicated", "Cleaning", c,
       "StatsComputed", "Done">> : c \in {"Normal", "TimeoutDegraded"}}
        \cup {<<"Reading", "Done">>}

\* the stages so far are in order, each at most once; Done ends a full run
\* only; nothing but Failed follows a fault
StagesInOrder ==
    /\ \A i, j \in 1..Len(trail) : i < j => Rank(trail[i]) < Rank(trail[j])
    /\ "Done" \in Range(trail) => trail \in FullRuns
    /\ pc /= "escaped"
    /\ (exc /= None /\ pc = "done") => trail[Len(trail)] = "Failed"
    /\ (exc = None /\ pc = "done") => trail[Len(trail)] = "Done"

\* the step that follows a fault is the one to Failed
FaultGoesToFailed == exc /= None => trail' = Append(trail, "Failed")

\* the call has returned, with Done or with Failed as its last stage
Ended ==
    /\ pc = "done"
    /\ trail /= <<>>
    /\ trail[Len(trail)] \in {"Done", "Failed"}

\* C21: every call ends in exactly one of Done and Failed; its stages occur
\* in the order Reading, HeaderResolved, Deduplicated, Cleaning, Normal or
\* TimeoutDegraded, StatsComputed, Done; a fault goes to Failed with no stage
\* in between and none after.
C21_StageOrder ==
    /\ []StagesInOrder
    /\ [][FaultGoesToFailed]_vars
    /\ <>[]Ended

\* a fault in cleaning: the three stages before it, then Failed
C21_Witness ==
    trail = <<"Reading", "HeaderResolved", "Deduplicated", "Failed">>
        /\ exc = AmbiguousTruthValue

\* the budget is looked at in the step from the checkpoint, after cleaning
BudgetReadAtCheckpoint ==
    elapsed_time' /= elapsed_time =>
        /\ pc = "checkpoint"
        /\ cleaned /= None
        /\ cleaned' = cleaned
        /\ exc' = None

\* C22: the elapsed time is compared with the budget at one point only,
\* once cleaning has returned; a call over budget still returns a table; a
\* call that returns through the extra-large branch or fails never reads
\* the budget.
C22_BudgetAdvisory ==
    /\ [][BudgetReadAtCheckpoint]_vars
    /\ [](elapsed_time > 20 =>
             /\ exc = None
             /\ pc \in {"stats", "done"}
             /\ Returned => result.table /= None)
    /\ []((Returned /\ (result.table = None \/ FastPath)) =>
             elapsed_time = NoTime)

\* 21 seconds at the checkpoint, and the call returned a table
C22_Witness ==
    /\ Succeeded
    /\ elapsed_time = 21
    /\ DfLen(cleaned) <= 1000
    /\ result.table = cleaned

\* C25: on the normal path the rows of the returned table are the raw rows
\* from index header_row + 1 on, in their order, or the first 1000 of them
\* after a soft degrade; the header row and the rows above it are absent.
C25_RowsAfterHeader ==
    (Succeeded /\ ~FastPath) =>
        LET t == result.table
        IN  /\ t.sheet = file.sheet
            /\ t.lo = header_row + 1
            /\ t.hi = IF TimeoutDegraded THEN header_row + 1 + 1000
                      ELSE file.sheet.n
            /\ \A i \in {0, DfLen(t) - 1} \cap 0..(DfLen(t) - 1) :
                   \A j \in 1..t.sheet.width :
                       DfCell(t, i, j) \in
                           {RawRow(file.sheet, header_row + 1 + i)[j], Null}

\* two title rows and the header are gone, 19 rows are left
C25_Witness ==
    /\ Succeeded
    /\ ~FastPath
    /\ header_row = 2
    /\ file.sheet.n = 22
    /\ result.table.lo = 3
    /\ result.table.hi = 22

\* what a step of cleaning leaves as it was
CleanKeepsShape ==
    (pc = "clean" /\ pc' = "checkpoint") =>
        /\ df'.sheet = df.sheet
        /\ df'.lo = df.lo
        /\ df'.hi = df.hi
        /\ df'.columns = [j \in 1..Len(df.columns) |-> Strip(df.columns[j])]
        /\ \A r \in RowsIn(df.sheet, df.lo, df.hi) :
               \A j \in 1..df.sheet.width :
                   CellAfterNa(df', r[j], j) \in
                       {CellAfterNa(df, r[j], j), Null}

\* C26: _clean_dataframe changes neither the number of rows nor the number
\* or order of the columns, in any tier: it trims labels and replaces cells
\* by the null marker; on the normal path final_cols is the number of cells
\* of the header row.
C26_CleanFrame ==
    /\ [][CleanKeepsShape]_vars
    /\ []((cleaned /= None /\ pc = "checkpoint") =>
             /\ DfLen(cleaned) = file.sheet.n - header_row - 1
             /\ Len(cleaned.columns) = Len(headers))
    /\ []((Succeeded /\ ~FastPath) =>
             result.stats.final_cols = Len(headers))

\* 10,000 rows went in and came out, some of their cells replaced
C26_Witness ==
    /\ cleaned /= None
    /\ pc = "checkpoint"
    /\ cleaned.columns = <<(<<"A">>), (<<"B">>), (<<"C">>)>>
    /\ DfLen(cleaned) = 10000
    /\ \E r \in RowsIn(cleaned.sheet, cleaned.lo, cleaned.hi) :
           \E j \in 1..cleaned.sheet.width :
               r[j] /= Null /\ CellAfterNa(cleaned, r[j], j) = Null

\* C27: when the elapsed time is at most 20 seconds, or the cleaned table
\* has at most 1000 rows, the returned table is the cleaned table.
C27_CheckpointFrame ==
    (cleaned /= None /\ elapsed_time /= NoTime
        /\ (elapsed_time <= 20 \/ DfLen(cleaned) <= 1000)) =>
        /\ df = cleaned
        /\ Returned => result.table = cleaned

\* exactly 20 seconds and 1001 rows: nothing was cut
C27_Witness ==
    /\ Succeeded
    /\ elapsed_time = 20
    /\ DfLen(cleaned) = 1001
    /\ DfLen(result.table) = 1001

----------------------------------------------------------------------------
(* Claims about the upload handler, the task and the status stream *)

\* the table of a result is cut from the workbook whose bytes the request
\* sent: what a run on those bytes alone returns (C25)
OwnResult(rq) ==
    rq.result.table /= None => rq.result.table.sheet = rq.contents.sheet

\* C23: two upload-and-process requests do not interfere, the save to the
\* raw folder included: the result of each is the result of a run on the
\* bytes that were uploaded for it.
C23_NoInterference ==
    \A c \in DOMAIN requests :
        requests[c].result /= None => OwnResult(requests[c])

Statuses(events) == {events[i].status : i \in 1..Len(events)}

\* C28: when the pipeline returns a failure payload the task uploads
\* nothing and updates no database; it returns preview = [] and a summary
\* with total_rows 0, total_columns 0 and the payload under stats, so the
\* stream ends with a done event and sends no error event.
C28_FailurePayload ==
    (pc = "done" /\ result.table = None) =>
        /\ task.pc \in {"process", "summary", "returned"}
        /\ storage = NoStorage
        /\ database = NoSession
        /\ task.caught = None
        /\ task.pc = "returned" =>
               /\ state = "SUCCESS"
               /\ task.returned.preview = <<>>
               /\ task.returned.summary.total_rows = 0
               /\ task.returned.summary.total_columns = 0
               /\ task.returned.summary.stats = result.stats
               /\ "error" \in DOMAIN result.stats
        /\ "error" \notin Statuses(stream.events)
        /\ stream.pc = "closed" =>
               stream.events[Len(stream.events)].status = "done"

\* a failure, asked to upload, and the stream has ended
C28_Witness ==
    /\ task.pc = "returned"
    /\ result.table = None
    /\ task.project_id = 123
    /\ task.sheet_type = "SAP"
    /\ stream.pc = "closed"
    /\ stream.events[Len(stream.events)].preview = <<>>

\* the places of the done and error events
TerminalEvents(events) ==
    {i \in 1..Len(events) : events[i].status \in {"done", "error"}}

\* the polls that read SUCCESS or FAILURE
FinishedPolls(polled) ==
    {i \in 1..Len(polled) : polled[i] \in {"SUCCESS", "FAILURE"}}

\* C29: the stream ends exactly when a poll reads SUCCESS or FAILURE; then
\* one terminal event, done or error, is sent and it is the last event; on
\* every other state the stream goes on polling and sends no terminal event.
C29_StreamEnds ==
    /\ stream.pc = "closed" <=> FinishedPolls(stream.polled) /= {}
    /\ stream.pc = "closed" =>
           /\ FinishedPolls(stream.polled) = {Len(stream.polled)}
           /\ TerminalEvents(stream.events) = {Len(stream.events)}
           /\ stream.events[Len(stream.events)].status =
                  IF stream.polled[Len(stream.polled)] = "SUCCESS"
                  THEN "done" ELSE "error"
    /\ stream.pc /= "closed" =>
           /\ TerminalEvents(stream.events) = {}
           /\ stream.polled /= <<>> => stream.pc = "polling"

\* three polls went on, the fourth read FAILURE
C29_Witness ==
    /\ stream.pc = "closed"
    /\ stream.polled = <<"PENDING", "STARTED", "RETRY", "FAILURE">>
    /\ Len(stream.events) = 4
    /\ stream.events[3].status = "processing"
    /\ stream.events[4].status = "error"

\* C30: whenever an exception occurs after the session was opened, the
\* session is rolled back and then closed and the exception does not
\* propagate to the caller; the session is closed on every path on which it
\* was opened.
C30_RollbackThenClose ==
    LET calls == database.calls
    IN  /\ (database.raised /= None /\ "Session" \in Range(calls)) =>
               /\ Len(calls) >= 2
               /\ calls[Len(calls) - 1] = "rollback"
               /\ calls[Len(calls)] = "close"
               /\ database.propagated = None
        /\ "Session" \in Range(calls) => calls[Len(calls)] = "close"

====
